---- MODULE Spec2Model ----
(***************************************************************************)
(* Model of the CI auto-fix loop of src/src/hooks/ci_auto_fix.py:          *)
(* run_ci_auto_fix and the collaborators it calls (get_ci_status,           *)
(* get_failure_logs, attempt_lint_fix, attempt_claude_fix, commit_and_push, *)
(* _log).  The external commands (gh, ruff, make, git, claude) are the      *)
(* environment: their exit codes and outputs are drawn from small sets.     *)
(***************************************************************************)
EXTENDS Integers, Sequences, FiniteSets, TLC

VARIABLES
    pc,           \* position of run_ci_auto_fix
    max_retries,  \* argument of run_ci_auto_fix
    attempt,      \* local `attempt`
    pending,      \* local `pending` (a Python value: None or a list)
    failed,       \* local `failed`
    logs,         \* local `logs` (length of the text)
    lint_fixed,   \* local `lint_fixed`
    ret,          \* outcomes run_ci_auto_fix has returned: <<>> while running
    log,          \* lines this invocation appended to LOG_FILE
    logWritable,  \* whether LOG_FILE can be opened for append
    dirty,        \* the working tree has uncommitted changes
    commits,      \* commits created in the local history by this run
    remoteHead,   \* commits of this run the remote branch head has
    calls,        \* how often each collaborator was called
    okPublishes,  \* commit_and_push calls that returned True
    commit_result,\* what the last commit_and_push did
    waited,       \* seconds slept since the last get_ci_status call
    last,         \* the most recent collaborator call (or "return")
    firstProbe,   \* class of the first get_ci_status result
    allFailing,   \* every probe so far returned ([], non-empty)
    settled,      \* probes so far that returned lists with nothing pending
    treeChanged,  \* a fixer changed the tree, or it was dirty at the start
    passed,       \* the attempt numbers passed to commit_and_push, in order
    cycles,       \* probes so far with nothing pending, a failed check and
                  \* attempt < max_retries
    onlySentinels,\* every get_ci_status call so far returned (None, None)
    io,           \* the last direct call of a collaborator: arguments and result
    mon           \* monitor_ci of ci-auto-fixer.py: its position, locals and calls

vars == <<pc, max_retries, attempt, pending, failed, logs, lint_fixed, ret, log,
          logWritable, dirty, commits, remoteHead, calls, okPublishes,
          commit_result, waited, last, firstProbe, allFailing, settled,
          treeChanged, passed, cycles, onlySentinels, io, mon>>

----------------------------------------------------------------------------
(* Bounds of the model *)

MaxRetriesBound == 3
MaxProbes == 5
MaxChecks == 2

(* Program constants *)

MAX_POLLS == 60

INITIAL_WAIT == 30
PENDING_WAIT == 15
POST_PUSH_WAIT == 30
LOG_LIMIT == 3000
SENTINEL_WAIT == 10
NOT_FOUND == 127

----------------------------------------------------------------------------
(* Python values: None and lists *)

None == [isNone |-> TRUE, items |-> <<>>]
List(s) == [isNone |-> FALSE, items |-> s]

\* Python truth value of None or a list
Truthy(x) == ~x.isNone /\ Len(x.items) > 0

Names == {"lint"}
Buckets == {"pending", "pass", "fail", "skipping"}
Checks == [name : Names, bucket : Buckets]

RECURSIVE SeqsUpTo(_, _)
SeqsUpTo(S, n) ==
    IF n = 0 THEN {<<>>}
    ELSE LET shorter == SeqsUpTo(S, n - 1)
         IN shorter \cup {Append(s, x) : s \in {t \in shorter : Len(t) = n - 1}, x \in S}

\* What `gh pr checks --json` gives back: an exit code and its stdout, which
\* is either not JSON or a JSON list of check objects.
QueryResults ==
    [returncode : {0, 1}, json : {FALSE}, shape : {"text"}, checks : {<<>>}]
    \cup [returncode : {0, 1}, json : {TRUE}, shape : {"checks"},
          checks : SeqsUpTo(Checks, MaxChecks)]

\* What a direct caller (a test's mock of run) can hand to get_ci_status:
\* checks with any name and bucket, the bucket key possibly missing, and
\* JSON that is not a list of objects: null, an object with keys, the empty
\* object, a list that holds a scalar.
AnyNames == {"lint", "test"}
AnyBuckets == Buckets \cup {"cancel", "missing"}
AnyChecks == [name : AnyNames, bucket : AnyBuckets]
OtherShapes == {"null", "object", "empty_object", "scalars"}
AnyQueryResults ==
    [returncode : {0, 1}, json : {FALSE}, shape : {"text"}, checks : {<<>>}]
    \cup [returncode : {0, 1}, json : {TRUE}, shape : {"checks"},
          checks : SeqsUpTo(AnyChecks, MaxChecks)]
    \cup [returncode : {0, 1}, json : {TRUE}, shape : OtherShapes, checks : {<<>>}]

\* a variant of the comprehension that builds its list back to front
RECURSIVE FilterReversed(_, _)
FilterReversed(checks, b) ==
    IF checks = <<>> THEN <<>>
    ELSE IF Head(checks).bucket = b
         THEN FilterReversed(Tail(checks), b) \o <<Head(checks)>>
         ELSE FilterReversed(Tail(checks), b)

\* [c for c in checks if c.get("bucket") == b]
RECURSIVE Filter(_, _)
Filter(checks, b) ==
    IF checks = <<>> THEN <<>>
    ELSE IF Head(checks).bucket = b
         THEN <<Head(checks)>> \o Filter(Tail(checks), b)
         ELSE Filter(Tail(checks), b)

\* results of get_ci_status: the sentinel, a pair of lists, or an exception
Sentinel == [raised |-> FALSE, pending |-> None, failed |-> None]
Lists(p, f) == [raised |-> FALSE, pending |-> List(p), failed |-> List(f)]
Raised == [raised |-> TRUE, pending |-> None, failed |-> None]

\* a variant of get_ci_status that counts as failed every check that is
\* neither pending nor pass
get_ci_status_FailedIsOther(q) ==
    IF q.returncode # 0 \/ ~q.json THEN Sentinel
    ELSE IF q.shape \in {"null", "object", "scalars"} THEN Raised
    ELSE IF q.shape = "empty_object" THEN Lists(<<>>, <<>>)
    ELSE Lists(Filter(q.checks, "pending"),
               SelectSeq(q.checks, LAMBDA c : c.bucket \notin {"pending", "pass"}))

\* a variant of get_ci_status that reports a failed query as no checks
get_ci_status_EmptyOnError(q) ==
    IF q.returncode # 0 \/ ~q.json THEN Lists(<<>>, <<>>)
    ELSE Lists(Filter(q.checks, "pending"), Filter(q.checks, "fail"))

\* lines 70-80.  json.loads gives the parsed value; the two comprehensions
\* iterate over it and call .get on every element: iterating null raises
\* TypeError, a key of an object or a scalar in a list has no .get
\* (AttributeError), the empty object has nothing to iterate over.
get_ci_status(q) ==
    IF q.returncode # 0 THEN Sentinel
    ELSE IF ~q.json THEN Sentinel
    ELSE IF q.shape \in {"null", "object", "scalars"} THEN Raised
    ELSE IF q.shape = "empty_object" THEN Lists(<<>>, <<>>)
    ELSE Lists(Filter(q.checks, "pending"), Filter(q.checks, "fail"))

\* Text printed by a command: a sequence of characters.
Char(i) == <<"a", "b", "c">>[(i % 3) + 1]
Text(n) == [i \in 1 .. n |-> Char(i)]
IsSpace(c) == c \in {" ", "\n"}

\* str.strip(): drop the leading and the trailing whitespace
RECURSIVE LStrip(_)
LStrip(s) == IF s # <<>> /\ IsSpace(Head(s)) THEN LStrip(Tail(s)) ELSE s
RECURSIVE RStrip(_)
RStrip(s) ==
    IF s # <<>> /\ IsSpace(s[Len(s)]) THEN RStrip(SubSeq(s, 1, Len(s) - 1)) ELSE s
Strip(s) == RStrip(LStrip(s))

\* a variant of the slice that keeps one character more
SliceInclusive(s, n) == SubSeq(s, 1, IF Len(s) < n + 1 THEN Len(s) ELSE n + 1)

\* s[:n]
Slice(s, n) == SubSeq(s, 1, IF Len(s) < n THEN Len(s) ELSE n)

\* how many times the command c was run
Count(cmds, c) == Cardinality({i \in DOMAIN cmds : cmds[i] = c})

\* what run() returns: the exit code and the captured stdout
RunResults(outs) == [returncode : {0, 1}, stdout : outs]

\* stdout of the run-list query: nothing, a blank line, or a run id
RunListOutputs == {<<>>, <<"\n">>, <<"9", "9", "\n">>}

\* lines 92-101: run_id = list_result.stdout.strip(); no id: return "";
\* otherwise gh run view <id> --log-failed and return stdout[:LOG_LIMIT].
\* Neither return code is read.
get_failure_logs(list_result, log_result) ==
    LET run_id == Strip(list_result.stdout) IN
    IF run_id = <<>>
    THEN [cmds |-> <<"gh run list">>, run_id |-> run_id, result |-> <<>>]
    ELSE [cmds |-> <<"gh run list", "gh run view">>, run_id |-> run_id,
          result |-> Slice(log_result.stdout, LOG_LIMIT)]

\* stdout of git status --porcelain: one line per changed file, nothing for
\* a clean tree
GitStatus(tree) == IF tree THEN <<" ", "M", " ", "f", "\n">> ELSE <<>>

\* a variant of attempt_lint_fix that commits what the fixers changed
attempt_lint_fix_Commits(ruff_rc, status_out) ==
    [cmds   |-> IF ruff_rc = NOT_FOUND
                THEN <<"ruff check --fix", "make lint-fix", "git status", "git commit">>
                ELSE <<"ruff check --fix", "ruff format", "git status", "git commit">>,
     result |-> Strip(status_out) # <<>>]

\* a variant of attempt_lint_fix that falls back on any failure of ruff
attempt_lint_fix_FallbackOnError(ruff_rc, status_out) ==
    [cmds   |-> IF ruff_rc # 0
                THEN <<"ruff check --fix", "make lint-fix", "git status">>
                ELSE <<"ruff check --fix", "ruff format", "git status">>,
     result |-> Strip(status_out) # <<>>]

\* lines 118-127: ruff check --fix; then make lint-fix (exit 127) or ruff
\* format; then git status --porcelain, true iff its stripped output is
\* not empty.
attempt_lint_fix(ruff_rc, status_out) ==
    [cmds   |-> IF ruff_rc = NOT_FOUND
                THEN <<"ruff check --fix", "make lint-fix", "git status">>
                ELSE <<"ruff check --fix", "ruff format", "git status">>,
     result |-> Strip(status_out) # <<>>]

\* _log: append one line to LOG_FILE, swallowing any error.  A line is its
\* message and the attempt numbers formatted into it.
Line(msg, args) == [msg |-> msg, args |-> args]
Log(l, line) == IF logWritable THEN Append(l, line) ELSE l

\* a variant of commit_and_push that pushes whatever the commit did
commit_and_push_PushAnyway(tree, add_rc, commit_rc, push_rc, attempt_num) ==
    [cmds    |-> <<"git add -A", "git commit", "git push">>,
     message |-> attempt_num,
     tree    |-> IF commit_rc = 0 THEN FALSE ELSE tree,
     commit  |-> commit_rc = 0,
     push    |-> push_rc = 0,
     lines   |-> IF push_rc # 0 THEN <<Line("Push failed", <<>>)>> ELSE <<>>,
     result  |-> push_rc = 0]

\* lines 162-177: git add -A (result not read); git commit -m "... attempt
\* <n>"; git push.
commit_and_push(tree, add_rc, commit_rc, push_rc, attempt_num) ==
    [cmds    |-> IF commit_rc # 0 THEN <<"git add -A", "git commit">>
                 ELSE <<"git add -A", "git commit", "git push">>,
     message |-> attempt_num,
     tree    |-> IF commit_rc = 0 THEN FALSE ELSE tree,
     commit  |-> commit_rc = 0,
     push    |-> commit_rc = 0 /\ push_rc = 0,
     lines   |-> IF commit_rc # 0 THEN <<Line("Nothing to commit", <<>>)>>
                 ELSE IF push_rc # 0 THEN <<Line("Push failed", <<>>)>>
                 ELSE <<>>,
     result  |-> commit_rc = 0 /\ push_rc = 0]

RECURSIVE LogAll(_, _)
LogAll(l, lines) ==
    IF lines = <<>> THEN l ELSE LogAll(Log(l, Head(lines)), Tail(lines))

----------------------------------------------------------------------------
(* run_ci_auto_fix *)

NoIo == [fn |-> "none"]

\* what check_ci_status returns when CI has not completed
NotCompleted == [completed |-> FALSE, success |-> FALSE, failed_checks |-> <<>>]

\* monitor_ci not called
MonIdle ==
    [pc |-> "idle", max_retries |-> 0, poll |-> 0, attempt |-> 0,
     status |-> NotCompleted, fixes_applied |-> FALSE, ret |-> <<>>,
     polls |-> 0, fixes |-> 0]

\* the one command get_ci_status runs (lines 66-69)
StatusCmds == <<"gh pr checks">>

\* what the commands of a read-only collaborator do to the local history
\* and to the remote head: a git commit adds a commit, a git push moves the
\* remote head to the local one, any other command leaves both alone
History(cmds) ==
    /\ commits' = commits + Count(cmds, "git commit")
    /\ remoteHead' = IF Count(cmds, "git push") > 0
                      THEN commits + Count(cmds, "git commit") ELSE remoteHead

NoCalls == [probe |-> 0, logs |-> 0, lint |-> 0, claude |-> 0, publish |-> 0]
Called(c, f) == [c EXCEPT ![f] = @ + 1]

\* class of a get_ci_status result
ProbeClass(st) ==
    IF st.pending.isNone THEN "sentinel"
    ELSE IF Truthy(st.pending) THEN "pending"
    ELSE IF Truthy(st.failed) THEN "failed"
    ELSE "clean"

Init ==
    /\ pc = "start"
    /\ max_retries \in -1 .. MaxRetriesBound
    /\ attempt = 0
    /\ pending = None
    /\ failed = None
    /\ logs = 0
    /\ lint_fixed = FALSE
    /\ ret = <<>>
    /\ log = <<>>
    /\ logWritable \in BOOLEAN
    /\ dirty \in BOOLEAN
    /\ commits = 0
    /\ remoteHead = 0
    /\ calls = NoCalls
    /\ okPublishes = 0
    /\ commit_result = "none"
    /\ waited = 0
    /\ last = "none"
    /\ firstProbe = "none"
    /\ allFailing = TRUE
    /\ settled = 0
    /\ treeChanged = dirty
    /\ passed = <<>>
    /\ cycles = 0
    /\ onlySentinels = TRUE
    /\ io = NoIo
    /\ mon = MonIdle

\* lines 200-203: log the start line, sleep INITIAL_WAIT, attempt = 0
Start ==
    /\ pc = "start"
    /\ log' = Log(log, Line("Starting CI auto-fix for PR", <<>>))
    /\ waited' = waited + INITIAL_WAIT
    /\ attempt' = 0
    /\ pc' = "probe"
    /\ UNCHANGED <<mon, io, cycles, onlySentinels, passed, max_retries, pending, failed, logs, lint_fixed, ret, logWritable,
                   dirty, commits, remoteHead, calls, okPublishes, commit_result,
                   last, firstProbe, allFailing, settled,
                   treeChanged>>

\* the bookkeeping of one get_ci_status call
ProbeCall(st) ==
    /\ calls[ "probe" ] < MaxProbes
    /\ pending' = st.pending
    /\ failed' = st.failed
    /\ calls' = Called(calls, "probe")
    /\ last' = "probe"
    /\ waited' = 0
    /\ firstProbe' = IF calls[ "probe" ] = 0 THEN ProbeClass(st) ELSE firstProbe
    /\ allFailing' = (allFailing /\ ProbeClass(st) = "failed")
    /\ settled' = IF ProbeClass(st) \in {"failed", "clean"} THEN settled + 1 ELSE settled
    /\ cycles' = IF ProbeClass(st) = "failed" /\ attempt < max_retries
                  THEN cycles + 1 ELSE cycles
    /\ onlySentinels' = (onlySentinels /\ ProbeClass(st) = "sentinel")
    /\ History(StatusCmds)

\* lines 206-208: the probe at the top of the outer loop
Probe ==
    /\ pc = "probe"
    /\ \E q \in QueryResults :
          LET st == get_ci_status(q) IN
          /\ ProbeCall(st)
          /\ pc' = IF st.pending.isNone THEN "sentinel_pause" ELSE "pending_loop"
    /\ UNCHANGED <<mon, io, passed, max_retries, attempt, logs, lint_fixed, ret, log, logWritable,
                   dirty, okPublishes, commit_result, treeChanged>>

\* a variant of lines 208-211 that gives up at the second sentinel in a run
\* that has seen nothing else
SentinelPauseGivesUp ==
    /\ pc = "sentinel_pause"
    /\ waited' = waited + SENTINEL_WAIT
    /\ pc' = IF onlySentinels /\ calls.probe > 1 THEN "done" ELSE "probe"
    /\ ret' = IF onlySentinels /\ calls.probe > 1 THEN Append(ret, 1) ELSE ret
    /\ UNCHANGED <<mon, io, cycles, onlySentinels, passed, max_retries, attempt, pending, failed, logs,
                   lint_fixed, log, logWritable, dirty, commits, remoteHead, calls,
                   okPublishes, commit_result, last, firstProbe, allFailing, settled,
                   treeChanged>>

\* lines 208-211: gh call failed; sleep 10 and continue the outer loop
SentinelPause ==
    /\ pc = "sentinel_pause"
    /\ waited' = waited + SENTINEL_WAIT
    /\ pc' = "probe"
    /\ UNCHANGED <<mon, io, cycles, onlySentinels, passed, max_retries, attempt, pending, failed, logs, lint_fixed, ret, log,
                   logWritable, dirty, commits, remoteHead, calls, okPublishes,
                   commit_result, last, firstProbe, allFailing, settled,
                   treeChanged>>

\* a variant of the test of line 214 that never waits
StillPendingNever(p) == FALSE

\* a variant of the test of line 214 that never leaves the loop
StillPendingAlways(p) == TRUE

\* line 214: `while pending:`
StillPending(p) == Truthy(p)

\* lines 214-216: `while pending:` is true; log and sleep PENDING_WAIT
PendingWait ==
    /\ pc = "pending_loop"
    /\ StillPending(pending)
    /\ log' = Log(log, Line("checks still pending...", <<>>))
    /\ waited' = waited + PENDING_WAIT
    /\ pc' = "reprobe"
    /\ UNCHANGED <<mon, io, cycles, onlySentinels, passed, max_retries, attempt, pending, failed, logs, lint_fixed, ret,
                   logWritable, dirty, commits, remoteHead, calls, okPublishes,
                   commit_result, last, firstProbe, allFailing, settled,
                   treeChanged>>

\* line 214: `while pending:` is false; fall through to the success test
PendingDone ==
    /\ pc = "pending_loop"
    /\ ~StillPending(pending)
    /\ pc' = "evaluate"
    /\ UNCHANGED <<mon, io, cycles, onlySentinels, passed, max_retries, attempt, pending, failed, logs, lint_fixed, ret, log,
                   logWritable, dirty, commits, remoteHead, calls, okPublishes,
                   commit_result, waited, last, firstProbe, allFailing, settled,
                   treeChanged>>

\* lines 217-218: the probe inside the pending loop
Reprobe ==
    /\ pc = "reprobe"
    /\ \E q \in QueryResults :
          LET st == get_ci_status(q) IN
          /\ ProbeCall(st)
          /\ pc' = IF st.pending.isNone THEN "inner_pause" ELSE "pending_loop"
    /\ UNCHANGED <<mon, io, passed, max_retries, attempt, logs, lint_fixed, ret, log, logWritable,
                   dirty, okPublishes, commit_result, treeChanged>>

\* lines 218-220: gh call failed inside the pending loop; sleep 10 and break
InnerPause ==
    /\ pc = "inner_pause"
    /\ waited' = waited + SENTINEL_WAIT
    /\ pc' = "evaluate"
    /\ UNCHANGED <<mon, io, cycles, onlySentinels, passed, max_retries, attempt, pending, failed, logs, lint_fixed, ret, log,
                   logWritable, dirty, commits, remoteHead, calls, okPublishes,
                   commit_result, last, firstProbe, allFailing, settled,
                   treeChanged>>

\* a variant of the test of line 223 that takes only None for success
NoFailuresNoneOnly(f) == f.isNone

\* line 223: `if not failed:`
NoFailures(f) == ~Truthy(f)

\* a variant of the guard of line 232 that never stops the retries
RetriesExhaustedNever(a, m) == FALSE

\* a variant of the guard of line 232 that is off by one
RetriesExhaustedOffByOne(a, m) == a > m

\* line 232: `if attempt >= max_retries:`
RetriesExhausted(a, m) == a >= m

\* lines 223-225: success path, return 0
Success ==
    /\ pc = "evaluate"
    /\ NoFailures(failed)
    /\ log' = Log(log, Line("All CI checks passed!", <<>>))
    /\ ret' = Append(ret, 0)
    /\ last' = "return"
    /\ pc' = "done"
    /\ UNCHANGED <<mon, io, cycles, onlySentinels, passed, max_retries, attempt, pending, failed, logs, lint_fixed,
                   logWritable, dirty, commits, remoteHead, calls, okPublishes,
                   commit_result, waited, firstProbe, allFailing, settled,
                   treeChanged>>

\* lines 228-231: log "N CI check(s) failed (attempt attempt+1/max_retries)"
ReportFailed ==
    /\ pc = "evaluate"
    /\ ~NoFailures(failed)
    /\ log' = Log(log, Line("CI check(s) failed (attempt N/max)",
                            <<attempt + 1, max_retries>>))
    /\ pc' = "retry_guard"
    /\ UNCHANGED <<mon, io, cycles, onlySentinels, passed, max_retries, attempt, pending, failed, logs, lint_fixed, ret,
                   logWritable, dirty, commits, remoteHead, calls, okPublishes,
                   commit_result, waited, last, firstProbe, allFailing, settled,
                   treeChanged>>

\* lines 232-234: max retries guard, return 1
MaxRetriesReached ==
    /\ pc = "retry_guard"
    /\ RetriesExhausted(attempt, max_retries)
    /\ log' = Log(log, Line("Max retries reached. Manual fix required.",
                            <<max_retries>>))
    /\ ret' = Append(ret, 1)
    /\ last' = "return"
    /\ pc' = "done"
    /\ UNCHANGED <<mon, io, cycles, onlySentinels, passed, max_retries, attempt, pending, failed, logs, lint_fixed,
                   logWritable, dirty, commits, remoteHead, calls, okPublishes,
                   commit_result, waited, firstProbe, allFailing, settled,
                   treeChanged>>

\* line 237: logs = get_failure_logs(pr_num)
FetchLogs ==
    /\ pc = "retry_guard"
    /\ ~RetriesExhausted(attempt, max_retries)
    /\ \E list_result \in RunResults({<<>>, <<"9", "9", "\n">>}),
          log_result \in RunResults({<<>>, Text(LOG_LIMIT + 1)}) :
          LET r == get_failure_logs(list_result, log_result) IN
          /\ logs' = Len(r.result)
          /\ History(r.cmds)
    /\ calls' = Called(calls, "logs")
    /\ last' = "logs"
    /\ pc' = "lint"
    /\ UNCHANGED <<mon, io, cycles, onlySentinels, passed, max_retries, attempt, pending, failed, lint_fixed, ret, log,
                   logWritable, dirty, okPublishes,
                   commit_result, waited, firstProbe, allFailing, settled,
                   treeChanged>>

\* a variant of the test of line 240 that always tries the claude fix
NeedsClaudeFixAlways(fixed) == TRUE

\* line 240: `if not lint_fixed:`
NeedsClaudeFix(fixed) == ~fixed

\* lines 238-240: lint_fixed = attempt_lint_fix(repo_root)
LintFix ==
    /\ pc = "lint"
    /\ \E ruff_rc \in {0, 1, NOT_FOUND}, changed \in BOOLEAN :
          LET tree == dirty \/ changed
              r == attempt_lint_fix(ruff_rc, GitStatus(tree)) IN
          /\ dirty' = tree
          /\ lint_fixed' = r.result
          /\ treeChanged' = (treeChanged \/ changed)
          /\ pc' = IF NeedsClaudeFix(r.result) THEN "claude" ELSE "publish"
          /\ History(r.cmds)
    /\ calls' = Called(calls, "lint")
    /\ last' = "lint"
    /\ UNCHANGED <<mon, io, cycles, onlySentinels, passed, max_retries, attempt, pending, failed, logs, ret, log,
                   logWritable, okPublishes, commit_result,
                   waited, firstProbe, allFailing, settled>>

\* lines 240-242: lint fix made no changes; attempt_claude_fix(logs, repo_root)
ClaudeFix ==
    /\ pc = "claude"
    /\ log' = Log(log, Line("Lint fix made no changes, trying claude fix...", <<>>))
    /\ \E changed \in BOOLEAN :
          /\ dirty' = (dirty \/ changed)
          /\ treeChanged' = (treeChanged \/ changed)
    /\ calls' = Called(calls, "claude")
    /\ last' = "claude"
    /\ pc' = "publish"
    /\ UNCHANGED <<mon, io, cycles, onlySentinels, passed, max_retries, attempt, pending, failed, logs, lint_fixed, ret,
                   logWritable, commits, remoteHead, okPublishes, commit_result,
                   waited, firstProbe, allFailing, settled>>

\* what the commit step did, from the exit codes and the tree it found
CommitResult(tree, r) ==
    IF r.result THEN "committed_and_pushed"
    ELSE IF r.commit THEN "push_failed"
    ELSE IF tree THEN "commit_failed"
    ELSE "nothing_to_commit"

\* a variant of lines 246-252 that ignores a failed publish and retries
AfterPublishKeepsGoing(success, l) ==
    /\ log' = Log(l, Line("Pushed fix attempt", <<attempt + 1>>))
    /\ attempt' = attempt + 1
    /\ waited' = waited + POST_PUSH_WAIT
    /\ pc' = "probe"
    /\ UNCHANGED ret

\* a variant of lines 246-252 that goes straight back to the lint fix after a
\* successful publish, without probing again
AfterPublishRefixes(success, l) ==
    IF ~success
    THEN /\ log' = Log(l, Line("Commit/push failed. Stopping.", <<>>))
         /\ ret' = Append(ret, 2)
         /\ pc' = "done"
         /\ UNCHANGED <<attempt, waited>>
    ELSE /\ log' = Log(l, Line("Pushed fix attempt", <<attempt + 1>>))
         /\ attempt' = attempt + 1
         /\ waited' = waited + POST_PUSH_WAIT
         /\ pc' = "lint"
         /\ UNCHANGED ret

\* a variant of lines 246-252 that counts a failed publish as an attempt too
AfterPublishCountsFailures(success, l) ==
    IF ~success
    THEN /\ log' = Log(l, Line("Commit/push failed. Stopping.", <<>>))
         /\ ret' = Append(ret, 2)
         /\ attempt' = attempt + 1
         /\ pc' = "done"
         /\ UNCHANGED waited
    ELSE /\ log' = Log(l, Line("Pushed fix attempt", <<attempt + 1>>))
         /\ attempt' = attempt + 1
         /\ waited' = waited + POST_PUSH_WAIT
         /\ pc' = "probe"
         /\ UNCHANGED ret

\* a variant of lines 246-252 that probes again without the post-push sleep
AfterPublishNoWait(success, l) ==
    IF ~success
    THEN /\ log' = Log(l, Line("Commit/push failed. Stopping.", <<>>))
         /\ ret' = Append(ret, 2)
         /\ pc' = "done"
         /\ UNCHANGED <<attempt, waited>>
    ELSE /\ log' = Log(l, Line("Pushed fix attempt", <<attempt + 1>>))
         /\ attempt' = attempt + 1
         /\ pc' = "probe"
         /\ UNCHANGED <<ret, waited>>

\* a variant of lines 246-252 that forgets `attempt += 1`
AfterPublishNoIncrement(success, l) ==
    IF ~success
    THEN /\ log' = Log(l, Line("Commit/push failed. Stopping.", <<>>))
         /\ ret' = Append(ret, 2)
         /\ pc' = "done"
         /\ UNCHANGED <<attempt, waited>>
    ELSE /\ log' = Log(l, Line("Pushed fix attempt", <<attempt + 1>>))
         /\ waited' = waited + POST_PUSH_WAIT
         /\ pc' = "probe"
         /\ UNCHANGED <<ret, attempt>>

\* a variant of lines 246-252 that leaves the loop with `break` instead of
\* `return 2`, so that the function ends without an outcome code
AfterPublishBreaks(success, l) ==
    IF ~success
    THEN /\ log' = Log(l, Line("Commit/push failed. Stopping.", <<>>))
         /\ pc' = "done"
         /\ UNCHANGED <<ret, attempt, waited>>
    ELSE /\ log' = Log(l, Line("Pushed fix attempt", <<attempt + 1>>))
         /\ attempt' = attempt + 1
         /\ waited' = waited + POST_PUSH_WAIT
         /\ pc' = "probe"
         /\ UNCHANGED ret

\* lines 246-252: on failure log and return 2; else log, attempt += 1 and
\* sleep POST_PUSH_WAIT.  l is the log as commit_and_push left it.
AfterPublish(success, l) ==
    IF ~success
    THEN /\ log' = Log(l, Line("Commit/push failed. Stopping.", <<>>))
         /\ ret' = Append(ret, 2)
         /\ pc' = "done"
         /\ UNCHANGED <<attempt, waited>>
    ELSE /\ log' = Log(l, Line("Pushed fix attempt", <<attempt + 1>>))
         /\ attempt' = attempt + 1
         /\ waited' = waited + POST_PUSH_WAIT
         /\ pc' = "probe"
         /\ UNCHANGED ret

\* a variant of the argument of line 245 that passes the 0-based counter
AttemptNumberZeroBased(a) == a

\* line 245: the attempt number passed to commit_and_push, `attempt + 1`
AttemptNumber(a) == a + 1

\* line 245: success = commit_and_push(repo_root, attempt + 1).
\* git commit exits 0 only when the staged tree has something to commit.
Publish ==
    /\ pc = "publish"
    /\ \E add_rc \in {0, 1}, commit_rc \in (IF dirty THEN {0, 1} ELSE {1}),
          push_rc \in {0, 1} :
          LET r == commit_and_push(dirty, add_rc, commit_rc, push_rc,
                                   AttemptNumber(attempt)) IN
          /\ dirty' = r.tree
          /\ passed' = Append(passed, r.message)
          /\ commits' = IF r.commit THEN commits + 1 ELSE commits
          /\ remoteHead' = IF r.push THEN commits + 1 ELSE remoteHead
          /\ commit_result' = CommitResult(dirty, r)
          /\ okPublishes' = IF r.result THEN okPublishes + 1 ELSE okPublishes
          /\ AfterPublish(r.result, LogAll(log, r.lines))
    /\ calls' = Called(calls, "publish")
    /\ last' = "publish"
    /\ UNCHANGED <<mon, io, cycles, onlySentinels, max_retries, pending, failed, logs, lint_fixed, logWritable,
                   firstProbe, allFailing, settled, treeChanged>>

Next ==
    \/ Start
    \/ Probe
    \/ SentinelPause
    \/ PendingWait
    \/ PendingDone
    \/ Reprobe
    \/ InnerPause
    \/ Success
    \/ ReportFailed
    \/ MaxRetriesReached
    \/ FetchLogs
    \/ LintFix
    \/ ClaudeFix
    \/ Publish

Spec == Init /\ [][Next]_vars

\* ---------------------------------------------------------------------
\* The loop run without a limit on the number of probes.  The observation
\* counters stop counting at MaxProbes, and LOG_FILE cannot be written, so
\* that a run that polls for ever stays within finitely many states.
Saturated(n) == IF n < MaxProbes THEN n + 1 ELSE n

\* the bookkeeping of one get_ci_status call, counters saturating
LiveProbeCall(st) ==
    /\ pending' = st.pending
    /\ failed' = st.failed
    /\ calls' = [calls EXCEPT !["probe"] = Saturated(@)]
    /\ last' = "probe"
    /\ waited' = 0
    /\ firstProbe' = IF calls[ "probe" ] = 0 THEN ProbeClass(st) ELSE firstProbe
    /\ allFailing' = (allFailing /\ ProbeClass(st) = "failed")
    /\ settled' = IF ProbeClass(st) \in {"failed", "clean"}
                   THEN Saturated(settled) ELSE settled
    /\ cycles' = IF ProbeClass(st) = "failed" /\ attempt < max_retries
                  THEN Saturated(cycles) ELSE cycles
    /\ onlySentinels' = (onlySentinels /\ ProbeClass(st) = "sentinel")
    /\ History(StatusCmds)

\* lines 206-208
LiveProbe ==
    /\ pc = "probe"
    /\ \E q \in QueryResults :
          LET st == get_ci_status(q) IN
          /\ LiveProbeCall(st)
          /\ pc' = IF st.pending.isNone THEN "sentinel_pause" ELSE "pending_loop"
    /\ UNCHANGED <<mon, io, passed, max_retries, attempt, logs, lint_fixed, ret, log, logWritable,
                   dirty, okPublishes, commit_result, treeChanged>>

\* lines 217-218
LiveReprobe ==
    /\ pc = "reprobe"
    /\ \E q \in QueryResults :
          LET st == get_ci_status(q) IN
          /\ LiveProbeCall(st)
          /\ pc' = IF st.pending.isNone THEN "inner_pause" ELSE "pending_loop"
    /\ UNCHANGED <<mon, io, passed, max_retries, attempt, logs, lint_fixed, ret, log, logWritable,
                   dirty, okPublishes, commit_result, treeChanged>>

LiveInit == Init /\ ~logWritable

LiveNext ==
    \/ Start
    \/ LiveProbe
    \/ SentinelPause
    \/ PendingWait
    \/ PendingDone
    \/ LiveReprobe
    \/ InnerPause
    \/ Success
    \/ ReportFailed
    \/ MaxRetriesReached
    \/ FetchLogs
    \/ LintFix
    \/ ClaudeFix
    \/ Publish

\* a get_ci_status call that returns lists with nothing pending
SettlingProbe == (LiveProbe \/ LiveReprobe) /\ ~pending'.isNone /\ ~Truthy(pending')

\* The process keeps running (every sleep and every command returns), and
\* no polling phase gets sentinel or pending results for ever.
LiveSpec ==
    /\ LiveInit
    /\ [][LiveNext]_vars
    /\ WF_vars(LiveNext)
    /\ SF_vars(SettlingProbe)

\* ---------------------------------------------------------------------
\* The helper functions called on their own, as the unit tests call them:
\* each call draws the results of the commands the helper runs and keeps
\* its inputs and its result in io; a behaviour makes one call.  The loop's
\* variables stay as they are before run_ci_auto_fix starts.
loopVars == <<pc, max_retries, attempt, pending, failed, logs, lint_fixed, ret,
              log, logWritable, dirty, commits, remoteHead, calls, okPublishes,
              commit_result, waited, last, firstProbe, allFailing, settled,
              treeChanged, passed, cycles, onlySentinels>>

\* the loop's variables as they are before run_ci_auto_fix starts
LoopIdle ==
    /\ max_retries = 0
    /\ attempt = 0
    /\ pending = None
    /\ failed = None
    /\ logs = 0
    /\ lint_fixed = FALSE
    /\ ret = <<>>
    /\ log = <<>>
    /\ logWritable = TRUE
    /\ dirty = FALSE
    /\ commits = 0
    /\ remoteHead = 0
    /\ calls = NoCalls
    /\ okPublishes = 0
    /\ commit_result = "none"
    /\ waited = 0
    /\ last = "none"
    /\ firstProbe = "none"
    /\ allFailing = TRUE
    /\ settled = 0
    /\ treeChanged = FALSE
    /\ passed = <<>>
    /\ cycles = 0
    /\ onlySentinels = TRUE

FnInit ==
    /\ pc = "call"
    /\ LoopIdle
    /\ io = NoIo
    /\ mon = MonIdle

CallGetCiStatus ==
    /\ pc = "call" /\ io = NoIo
    /\ \E q \in AnyQueryResults :
          io' = [fn |-> "get_ci_status", q |-> q, out |-> get_ci_status(q)]
    /\ UNCHANGED <<loopVars, mon>>

\* the log printed by gh run view: short, around LOG_LIMIT, far beyond it
LogTexts ==
    {Text(n) : n \in {0, 2, LOG_LIMIT - 1, LOG_LIMIT, LOG_LIMIT + 1, 2 * LOG_LIMIT}}

CallGetFailureLogs ==
    /\ pc = "call" /\ io = NoIo
    /\ \E list_result \in RunResults(RunListOutputs), log_result \in RunResults(LogTexts) :
          io' = [fn |-> "get_failure_logs", list |-> list_result, log |-> log_result,
                 out |-> get_failure_logs(list_result, log_result)]
    /\ UNCHANGED <<loopVars, mon>>

CallAttemptLintFix ==
    /\ pc = "call" /\ io = NoIo
    /\ \E ruff_rc \in {0, 1, 2, NOT_FOUND}, tree \in BOOLEAN :
          io' = [fn |-> "attempt_lint_fix", ruff_rc |-> ruff_rc,
                 status |-> GitStatus(tree),
                 out |-> attempt_lint_fix(ruff_rc, GitStatus(tree))]
    /\ UNCHANGED <<loopVars, mon>>

CallCommitAndPush ==
    /\ pc = "call" /\ io = NoIo
    /\ \E tree \in BOOLEAN, add_rc \in {0, 1}, commit_rc \in {0, 1}, push_rc \in {0, 1},
          attempt_num \in 1 .. MaxRetriesBound :
          io' = [fn |-> "commit_and_push", tree |-> tree, add_rc |-> add_rc,
                 commit_rc |-> commit_rc, push_rc |-> push_rc,
                 attempt_num |-> attempt_num,
                 out |-> commit_and_push(tree, add_rc, commit_rc, push_rc, attempt_num)]
    /\ UNCHANGED <<loopVars, mon>>

FnNext ==
    \/ CallGetCiStatus
    \/ CallGetFailureLogs
    \/ CallAttemptLintFix
    \/ CallCommitAndPush

FnSpec == FnInit /\ [][FnNext]_vars

----------------------------------------------------------------------------
TypeOK ==
    /\ pc \in {"start", "probe", "sentinel_pause", "pending_loop", "reprobe",
               "inner_pause", "evaluate", "retry_guard", "lint", "claude",
               "publish", "done"}
    /\ Len(ret) <= 1

----------------------------------------------------------------------------
(* Properties of run_ci_auto_fix *)

Returned(code) == ret = <<code>>
Running == ret = <<>>
FailedLine == "CI check(s) failed (attempt N/max)"
PublishFailed == commit_result \in {"nothing_to_commit", "commit_failed", "push_failed"}

\* C1: run_ci_auto_fix returns 0 only when the most recent get_ci_status call
\* returned a real result (not the sentinel) whose pending list and failed
\* list are both empty.
C1_ReturnsZeroOnlyOnCleanProbe ==
    Returned(0) =>
        (~pending.isNone /\ ~failed.isNone
         /\ pending.items = <<>> /\ failed.items = <<>>)

\* C2: after a get_ci_status call that returned the sentinel, the next thing
\* run_ci_auto_fix does besides pausing is another get_ci_status call: no
\* return, log fetch, remediation or publish comes in between.
C2_SentinelThenProbe ==
    [][ (last = "probe" /\ pending.isNone /\ (calls' # calls \/ ret' # ret))
          => (calls' = Called(calls, "probe") /\ ret' = ret /\ waited > 0) ]_vars

\* C3: every logged "attempt N/max_retries" line has N <= max_retries; the
\* line logged when a retry limit max_retries >= 1 is reached does not show
\* N = max_retries + 1.
C3_AttemptLineWithinMax ==
    \A i \in DOMAIN log :
        (log[i].msg = FailedLine /\ max_retries >= 1) =>
            log[i].args[1] <= log[i].args[2]

\* C4: a commit_and_push that returns false makes run_ci_auto_fix return 2 at
\* once: nothing is called after that publish, the attempt counter is not
\* incremented, and with a failing first probe and a failing first publish
\* the run made exactly 1 probe call and 1 publish call.
C4_PublishFailureReturns2 ==
    /\ PublishFailed =>
          /\ Returned(2) /\ pc = "done" /\ last = "publish"
          /\ calls.publish = okPublishes + 1
          /\ attempt = okPublishes
    /\ Returned(2) => PublishFailed
    /\ (PublishFailed /\ firstProbe = "failed" /\ okPublishes = 0) =>
          (calls.probe = 1 /\ calls.publish = 1)

C4_Witness ==
    /\ Returned(2) /\ commit_result = "push_failed"
    /\ firstProbe = "failed" /\ calls.probe = 1 /\ calls.publish = 1
    /\ attempt = 0

\* C5: for max_retries >= 0, when every probe returns no pending and at least
\* one failed check and every commit_and_push returns true, the run returns 1
\* after exactly max_retries + 1 probes and max_retries publishes; and it
\* returns 1 only with the attempt counter at max_retries and a failed check
\* in the last probe.
C5_ExhaustedAfterMaxRetries ==
    /\ (~Running /\ allFailing /\ calls.publish = okPublishes /\ max_retries >= 0) =>
          /\ Returned(1)
          /\ calls.probe = max_retries + 1
          /\ calls.publish = max_retries
    /\ Returned(1) =>
          /\ attempt >= max_retries
          /\ max_retries >= 0 => attempt = max_retries
          /\ Truthy(failed) /\ ~Truthy(pending) /\ last = "return"

C5_Witness ==
    /\ Returned(1) /\ allFailing /\ max_retries = 3
    /\ calls.probe = 4 /\ calls.publish = 3 /\ okPublishes = 3

\* C6 as stated: a run that never succeeds calls get_ci_status at most
\* max_retries + 1 times (max_retries being a number of retries, >= 0).
C6_ProbesAtMostMaxPlusOne ==
    (max_retries >= 0 /\ (Returned(1) \/ Returned(2))) =>
        calls.probe <= max_retries + 1

\* C6 amended: for max_retries >= 0, in a run that has not succeeded at most
\* max_retries + 1 get_ci_status calls returned a real result with no
\* pending checks; sentinel results and pending polls are not bounded by it.
C6_SettledProbesAtMostMaxPlusOne ==
    (max_retries >= 0 /\ ~Returned(0)) => settled <= max_retries + 1

C6_Witness ==
    /\ Returned(1) /\ max_retries >= 1
    /\ settled = max_retries + 1 /\ calls.probe > max_retries + 1

\* C7: when every probe reports a failed check and no fixer changes the
\* working tree, so that there is nothing to commit, the run returns 1.
C7_NoFixPossibleReturns1 ==
    (~Running /\ allFailing /\ ~treeChanged) => Returned(1)

\* C8: when the commit step reports nothing to commit, the run still
\* increments the attempt counter and goes on; it does not terminate there.
C8_NoopAttemptConsumesRetry ==
    (commit_result = "nothing_to_commit" /\ last = "publish") =>
        (Running /\ pc = "probe" /\ attempt = calls.publish)

\* C9: when the first get_ci_status result is ([], []), the run returns 0
\* without calling get_failure_logs, attempt_lint_fix, attempt_claude_fix or
\* commit_and_push.
C9_CleanFirstProbeReturns0 ==
    firstProbe = "clean" =>
        /\ calls.logs = 0 /\ calls.lint = 0 /\ calls.claude = 0 /\ calls.publish = 0
        /\ calls.probe = 1
        /\ pc \in {"pending_loop", "evaluate", "done"}
        /\ pc = "done" => Returned(0)

C9_Witness ==
    /\ firstProbe = "clean" /\ Returned(0) /\ pc = "done"
    /\ pending = List(<<>>) /\ failed = List(<<>>)

\* C10: an invocation that ends has produced exactly one outcome, one of 0,
\* 1, 2, and after the outcome nothing changes any more.
C10_OneOutcomeAbsorbing ==
    [][ /\ pc' = "done" => (Len(ret') = 1 /\ ret'[1] \in {0, 1, 2})
        /\ ret' # <<>> => pc' = "done"
        /\ ret # <<>> => UNCHANGED vars ]_vars

C10_Witness ==
    /\ pc = "done" /\ Len(ret) = 1 /\ ret[1] \in {0, 1, 2}
    /\ calls.publish > 0 /\ Len(log) > 1

\* C11: in every remediation iteration attempt_claude_fix is invoked if and
\* only if attempt_lint_fix returned false in that iteration, after
\* attempt_lint_fix and before commit_and_push.
C11_ClaudeFixIffLintUnchanged ==
    /\ pc = "claude" => (last = "lint" /\ ~lint_fixed)
    /\ pc = "publish" =>
          \/ last = "claude" /\ ~lint_fixed
          \/ last = "lint" /\ lint_fixed
    /\ last = "claude" => (~lint_fixed /\ pc = "publish")
    /\ calls.claude <= calls.lint

C11_Witness ==
    /\ pc = "publish" /\ last = "claude" /\ ~lint_fixed
    /\ calls.lint = 2 /\ calls.claude = 1

\* C20: the k-th call of commit_and_push in a run is passed attempt number k,
\* the number is the one in the commit message, and 1 <= k <= max_retries.
C20_AttemptNumbersPassed ==
    /\ Len(passed) = calls.publish
    /\ \A k \in DOMAIN passed :
          passed[k] = k /\ 1 <= passed[k] /\ passed[k] <= max_retries
    /\ pc = "publish" => AttemptNumber(attempt) = calls.publish + 1

C20_Witness ==
    /\ Len(passed) = 3 /\ passed[3] = 3 /\ max_retries = 3 /\ attempt = 3

\* ---------------------------------------------------------------------
\* get_ci_status called on its own (FnSpec)
StatusCall == io.fn = "get_ci_status"
\* the query exited 0 and printed a list of check objects
CheckList == StatusCall /\ io.q.returncode = 0 /\ io.q.json /\ io.q.shape = "checks"
\* the positions of the input checks whose bucket is b
Positions(b) == {i \in DOMAIN io.q.checks : io.q.checks[i].bucket = b}
\* the k-th smallest position of S
Pos(S, k) == CHOOSE i \in S : Cardinality({j \in S : j <= i}) = k
\* items holds the checks at the positions S, in the input's order
InOrder(items, S) ==
    /\ Len(items) = Cardinality(S)
    /\ \A k \in 1 .. Len(items) : items[k] = io.q.checks[Pos(S, k)]

\* C12: for a check list the query returned successfully, pending_checks
\* holds the checks with bucket pending and failed_checks those with bucket
\* fail, each in the input's order; a check with bucket pass is in neither
\* list, and no check is in both lists.
C12_ClassifiedDisjointInOrder ==
    CheckList =>
        /\ ~io.out.raised /\ ~io.out.pending.isNone /\ ~io.out.failed.isNone
        /\ InOrder(io.out.pending.items, Positions("pending"))
        /\ InOrder(io.out.failed.items, Positions("fail"))
        /\ \A i \in DOMAIN io.out.pending.items, j \in DOMAIN io.out.failed.items :
              io.out.pending.items[i] # io.out.failed.items[j]
        /\ \A i \in DOMAIN io.out.pending.items : io.out.pending.items[i].bucket # "pass"
        /\ \A j \in DOMAIN io.out.failed.items : io.out.failed.items[j].bucket # "pass"

\* two failing checks around a passing one come back in the input's order
C12_Witness ==
    /\ CheckList
    /\ io.q.checks = <<[name |-> "test", bucket |-> "fail"],
                       [name |-> "lint", bucket |-> "fail"]>>
    /\ io.out.failed.items = io.q.checks
    /\ io.out.pending.items = <<>>

\* C13 as stated: a check whose bucket is neither pending nor pass
\* (unrecognised or missing included) is in failed_checks, so a list with
\* such a check never gives an empty failed_checks.
C13_OtherBucketsAreFailed ==
    CheckList =>
        \A i \in DOMAIN io.q.checks :
            io.q.checks[i].bucket \notin {"pending", "pass"} =>
                /\ io.out.failed.items # <<>>
                /\ \E j \in DOMAIN io.out.failed.items :
                      io.out.failed.items[j] = io.q.checks[i]

\* C13: failed_checks holds exactly the checks whose bucket is fail; a
\* check whose bucket is anything else but pending (pass, skipping, cancel,
\* missing) is in neither list, so a list of such checks gives two empty
\* lists.
C13_OnlyFailBucketIsFailed ==
    CheckList =>
        /\ InOrder(io.out.failed.items, Positions("fail"))
        /\ \A i \in DOMAIN io.q.checks :
              io.q.checks[i].bucket \notin {"pending", "fail"} =>
                  /\ \A j \in DOMAIN io.out.failed.items :
                        io.out.failed.items[j] # io.q.checks[i]
                  /\ \A j \in DOMAIN io.out.pending.items :
                        io.out.pending.items[j] # io.q.checks[i]
        /\ (Positions("pending") \cup Positions("fail") = {}) =>
              io.out = Lists(<<>>, <<>>)

\* a cancelled check and one without a bucket give an empty failed_checks
C13_Witness ==
    /\ CheckList
    /\ io.q.checks = <<[name |-> "lint", bucket |-> "cancel"],
                       [name |-> "test", bucket |-> "missing"]>>
    /\ io.out = Lists(<<>>, <<>>)

\* C14: a query that exits non-zero or prints no JSON gives the sentinel
\* (None, None); a successful query whose check list has no pending and no
\* failed check gives ([], []), which is not the sentinel.
C14_SentinelOnFailedQuery ==
    /\ (StatusCall /\ (io.q.returncode # 0 \/ ~io.q.json)) =>
          /\ io.out = Sentinel
          /\ io.out.pending.isNone /\ io.out.failed.isNone
    /\ (CheckList /\ Positions("pending") = {} /\ Positions("fail") = {}) =>
          /\ io.out = Lists(<<>>, <<>>)
          /\ ~io.out.pending.isNone /\ ~io.out.failed.isNone
    /\ Lists(<<>>, <<>>) # Sentinel

\* the query exits 0 with text that is not JSON
C14_Witness ==
    /\ StatusCall /\ io.q.returncode = 0 /\ ~io.q.json
    /\ io.out = Sentinel

\* C15 as stated: valid JSON of another structure than a list of check
\* objects, printed by a query that exits 0, gives the sentinel: no
\* exception and no lists.
C15_SentinelOnOtherStructure ==
    (StatusCall /\ io.q.returncode = 0 /\ io.q.json /\ io.q.shape \in OtherShapes) =>
        io.out = Sentinel
\* ---------------------------------------------------------------------
\* get_failure_logs called on its own (FnSpec)
LogsCall == io.fn = "get_failure_logs"
\* the run-list query printed a run id, so the log was fetched
Fetched == LogsCall /\ Strip(io.list.stdout) # <<>>

\* C16: the result is the fetched log text itself when the text is not
\* longer than LOG_LIMIT, and its first LOG_LIMIT characters when it is
\* longer; no result is longer than LOG_LIMIT.
C16_TruncatedToLogLimit ==
    /\ LogsCall => Len(io.out.result) <= LOG_LIMIT
    /\ (Fetched /\ Len(io.log.stdout) > LOG_LIMIT) =>
          /\ Len(io.out.result) = LOG_LIMIT
          /\ \A i \in 1 .. LOG_LIMIT : io.out.result[i] = io.log.stdout[i]
    /\ (Fetched /\ Len(io.log.stdout) <= LOG_LIMIT) =>
          io.out.result = io.log.stdout

\* a log one character longer than the limit loses its last character
C16_Witness ==
    /\ Fetched
    /\ Len(io.log.stdout) = LOG_LIMIT + 1
    /\ Len(io.out.result) = LOG_LIMIT
    /\ io.out.result[LOG_LIMIT] = io.log.stdout[LOG_LIMIT]

\* C17 as stated: the result is the empty string when the run-list query
\* fails or prints no run id, and when the log fetch fails; with no run id
\* the log fetch is not issued.
C17_EmptyOnAnyFailure ==
    LogsCall =>
        /\ (\/ io.list.returncode # 0
            \/ Strip(io.list.stdout) = <<>>
            \/ io.log.returncode # 0) => io.out.result = <<>>
        /\ Strip(io.list.stdout) = <<>> => io.out.cmds = <<"gh run list">>

\* ---------------------------------------------------------------------
\* attempt_lint_fix called on its own (FnSpec)
LintCall == io.fn = "attempt_lint_fix"

\* C18: when ruff exits 127 the fallback make lint-fix runs exactly once and
\* ruff format does not run; for any other exit code the fallback never
\* runs.  Either way the status is read after the fix commands and the
\* result is true iff its output is not empty.
C18_FallbackOnlyOn127 ==
    LintCall =>
        /\ io.ruff_rc = NOT_FOUND =>
              /\ Count(io.out.cmds, "make lint-fix") = 1
              /\ Count(io.out.cmds, "ruff format") = 0
        /\ io.ruff_rc # NOT_FOUND => Count(io.out.cmds, "make lint-fix") = 0
        /\ io.out.cmds[Len(io.out.cmds)] = "git status"
        /\ Count(io.out.cmds, "git status") = 1
        /\ io.out.result <=> (io.status # <<>>)

\* ruff is missing and the fallback leaves a changed file
C18_Witness ==
    /\ LintCall /\ io.ruff_rc = NOT_FOUND
    /\ io.out.cmds = <<"ruff check --fix", "make lint-fix", "git status">>
    /\ io.status # <<>> /\ io.out.result

\* ---------------------------------------------------------------------
\* commit_and_push called on its own (FnSpec)
PushCall == io.fn = "commit_and_push"

\* C19: the commands run are stage, commit, push in that order; the push
\* is not run when the commit fails; the result is true iff the commit and
\* the push both exit 0, whatever the staging step's exit code.
C19_StageCommitPush ==
    PushCall =>
        /\ io.out.cmds = IF io.commit_rc = 0
                         THEN <<"git add -A", "git commit", "git push">>
                         ELSE <<"git add -A", "git commit">>
        /\ io.out.result <=> (io.commit_rc = 0 /\ io.push_rc = 0)

\* staging fails, commit and push succeed: the result is true
C19_Witness ==
    /\ PushCall /\ io.add_rc = 1 /\ io.commit_rc = 0 /\ io.push_rc = 0
    /\ io.out.result /\ Len(io.out.cmds) = 3
\* ---------------------------------------------------------------------
\* order, cycles and counters of run_ci_auto_fix (Spec)

\* which collaborator call (or return) may directly follow which
Order ==
    {<<"none", "probe">>, <<"probe", "probe">>, <<"probe", "logs">>,
     <<"probe", "return">>, <<"logs", "lint">>, <<"lint", "claude">>,
     <<"lint", "publish">>, <<"claude", "publish">>, <<"publish", "probe">>}

\* a step that calls a collaborator or returns through lines 225 or 234
CallStep == calls' # calls \/ last' # last

\* C21: the calls of one iteration come in the order probe, retry-limit
\* test, get_failure_logs, attempt_lint_fix, optionally attempt_claude_fix,
\* commit_and_push; a probe starts only when every commit_and_push called
\* so far has returned, and after a publish only when it returned true.
C21_StrictOrder ==
    [][/\ CallStep => <<last, last'>> \in Order
       /\ calls'.logs # calls.logs =>
             (pc = "retry_guard" /\ last = "probe" /\ attempt < max_retries)
       /\ calls'.probe # calls.probe =>
             /\ calls.logs = calls.publish /\ calls.lint = calls.publish
             /\ Len(passed) = calls.publish
             /\ last = "publish" => commit_result = "committed_and_pushed"]_vars

\* the third iteration's probe has been made after two full remediations
C21_Witness ==
    /\ last = "probe" /\ calls.publish = 2 /\ calls.claude = 1 /\ calls.probe = 3

\* the collaborators were called n times each
CalledEach(n) == calls.logs = n /\ calls.lint = n /\ calls.publish = n

\* the latest probe returned lists with nothing pending and nothing failed
CleanProbe == ~pending.isNone /\ ~Truthy(pending) /\ ~failed.isNone /\ ~Truthy(failed)

\* each collaborator has been called once per cycle begun, up to the step
\* the current cycle has reached
CycleCounts ==
    /\ pc = "lint" =>
          calls.logs = cycles /\ calls.lint = cycles - 1 /\ calls.publish = cycles - 1
    /\ pc \in {"claude", "publish"} =>
          calls.logs = cycles /\ calls.lint = cycles /\ calls.publish = cycles - 1
    /\ pc \in {"start", "probe", "sentinel_pause", "reprobe", "inner_pause", "done"} =>
          CalledEach(cycles)
    /\ pc \in {"pending_loop", "evaluate"} =>
          CalledEach(cycles) \/ CalledEach(cycles - 1)
    /\ pc = "retry_guard" =>
          IF attempt < max_retries THEN CalledEach(cycles - 1) ELSE CalledEach(cycles)

\* C22: every remediation cycle calls get_failure_logs, attempt_lint_fix
\* and commit_and_push exactly once each; commit_and_push follows whatever
\* the fixers reported; a clean probe returns 0 at once, with one call of
\* each per cycle.
C22_OncePerCycle ==
    /\ []CycleCounts
    /\ [][/\ pc = "lint" => pc' \in {"claude", "publish"}
          /\ pc = "claude" => pc' = "publish"
          /\ (pc = "evaluate" /\ CleanProbe) =>
                (ret' = <<0>> /\ pc' = "done" /\ calls' = calls)]_vars

\* the lint fix changed files, the publish succeeded, the next probe is
\* clean: return 0 after one call of each
C22_Witness ==
    /\ pc = "done" /\ ret = <<0>> /\ cycles = 1 /\ CalledEach(1)
    /\ calls.claude = 0 /\ lint_fixed /\ CleanProbe

\* the counter against the successful publishes and the limit
AttemptCount ==
    /\ attempt = okPublishes
    /\ pc = "start" => attempt = 0
    /\ max_retries >= 0 => attempt <= max_retries

\* C23: attempt is the number of commit_and_push calls that returned true;
\* it starts at 0, changes only by +1 in the step of a successful publish,
\* and never exceeds max_retries when max_retries >= 0.
C23_AttemptCountsPublishes ==
    /\ []AttemptCount
    /\ [][attempt' # attempt =>
            /\ attempt' = attempt + 1
            /\ pc = "publish"
            /\ okPublishes' = okPublishes + 1
            /\ commit_result' = "committed_and_pushed"]_vars

\* three successful publishes, then a pending probe leaves the counter alone
C23_Witness ==
    /\ attempt = 3 /\ okPublishes = 3 /\ max_retries = 3
    /\ pc = "pending_loop" /\ Truthy(pending)
\* where the loop is while the latest probe result has pending checks
PollingOnly == Truthy(pending) => (pc \in {"pending_loop", "reprobe"} /\ ret = <<>>)

\* C24: while the latest probe result has pending checks the loop only
\* waits and probes again, whether or not that result has failed checks:
\* no return and no call of get_failure_logs, a fixer or commit_and_push;
\* get_failure_logs is first called after a probe with nothing pending and
\* a failed check.
C24_PendingOnlyPolls ==
    /\ []PollingOnly
    /\ [][/\ Truthy(pending) =>
                /\ ret' = ret
                /\ calls'.logs = calls.logs /\ calls'.lint = calls.lint
                /\ calls'.claude = calls.claude /\ calls'.publish = calls.publish
                /\ pc' \in {"pending_loop", "reprobe", "inner_pause"}
          /\ calls'.logs # calls.logs =>
                /\ last = "probe"
                /\ ~pending.isNone /\ ~Truthy(pending) /\ Truthy(failed)]_vars

\* a probe with a pending and a failed check: the loop has slept the poll
\* interval and is about to probe again
C24_Witness ==
    /\ Len(pending.items) = 1 /\ Len(failed.items) = 1
    /\ pc = "reprobe" /\ waited = PENDING_WAIT /\ calls.logs = 0
\* the step appends at least one line to the log
Logged == Len(log') > Len(log)

\* C25 as stated, for a log file that can be written: the start line is the
\* first line; the step that handles a probe result (sentinel, pending or
\* settled), the lint fix and the claude fix, and every step that ends the
\* run each append a line before the loop's next call.
C25_EveryStepLogged ==
    [][logWritable =>
         /\ pc = "start" => (Logged /\ log'[1].msg = "Starting CI auto-fix for PR")
         /\ pc \in {"sentinel_pause", "inner_pause"} => Logged
         /\ (pc = "pending_loop" /\ Truthy(pending)) => Logged
         /\ pc = "evaluate" => Logged
         /\ pc \in {"lint", "claude"} => Logged
         /\ pc' = "done" => Logged]_vars
\* C26: the local history and the remote head change only in a
\* commit_and_push call; get_ci_status, get_failure_logs and
\* attempt_lint_fix leave both unchanged; a commit_and_push whose commit
\* fails leaves both unchanged.
C26_OnlyPublishChangesHistory ==
    [][/\ (commits' # commits \/ remoteHead' # remoteHead) =>
             (pc = "publish" /\ calls'.publish = calls.publish + 1)
       /\ (\/ calls'.probe # calls.probe
           \/ calls'.logs # calls.logs
           \/ calls'.lint # calls.lint) =>
             (commits' = commits /\ remoteHead' = remoteHead)
       /\ (pc = "publish" /\ commit_result' \in {"nothing_to_commit", "commit_failed"}) =>
             (commits' = commits /\ remoteHead' = remoteHead)]_vars

\* a second publish whose commit fails, after one that was pushed
C26_Witness ==
    /\ calls.publish = 2 /\ commit_result = "commit_failed"
    /\ commits = 1 /\ remoteHead = 1 /\ calls.lint = 2 /\ calls.logs = 2
\* ---------------------------------------------------------------------
\* termination (LiveSpec)

\* C27: when no polling phase receives sentinel or pending results for
\* ever, run_ci_auto_fix eventually returns one outcome, and it never
\* begins more than max_retries remediation cycles (max_retries >= 0).
C27_EventuallyReturns ==
    /\ <>(pc = "done" /\ Len(ret) = 1)
    /\ [](max_retries >= 0 => cycles <= max_retries)

\* two sentinels, then max_retries cycles that all publish, then return 1
C27_Witness ==
    /\ pc = "done" /\ ret = <<1>> /\ max_retries = 3 /\ cycles = 3
    /\ firstProbe = "sentinel" /\ calls.probe = MaxProbes /\ ~logWritable
\* ---------------------------------------------------------------------
\* sentinel retries and waits (Spec)

\* nothing but probing has happened
NothingButProbes ==
    /\ ret = <<>> /\ pc \in {"start", "probe", "sentinel_pause"}
    /\ calls.logs = 0 /\ calls.lint = 0 /\ calls.claude = 0 /\ calls.publish = 0
    /\ attempt = 0 /\ commits = 0 /\ remoteHead = 0

\* C28: as long as every get_ci_status call has returned (None, None), the
\* run has produced no outcome and has called neither get_failure_logs nor
\* a fixer nor commit_and_push, however many sentinels there were; after
\* each sentinel the loop pauses and probes again.
C28_SentinelsRetryForever ==
    /\ [](onlySentinels => NothingButProbes)
    /\ [][(onlySentinels /\ pc = "sentinel_pause") =>
             (pc' = "probe" /\ ret' = ret /\ waited' = waited + SENTINEL_WAIT)]_vars

\* MaxProbes sentinels in a row, and the loop is pausing before the next probe
C28_Witness ==
    /\ onlySentinels /\ calls.probe = MaxProbes /\ pc = "sentinel_pause" /\ ret = <<>>
\* what the loop has slept since the last get_ci_status call when it is
\* about to call it again
WaitedBeforeProbe ==
    /\ (pc = "probe" /\ calls.probe = 0) => waited = INITIAL_WAIT
    /\ (pc = "probe" /\ last = "publish") => waited = POST_PUSH_WAIT
    /\ (pc = "probe" /\ last = "probe") => waited = SENTINEL_WAIT
    /\ pc = "reprobe" => waited = PENDING_WAIT

\* C29: the first probe comes after the warm-up wait, the probe after a
\* successful publish after the post-push wait, and every get_ci_status
\* call but the first after a sentinel pause, a poll interval or the
\* post-push wait: no two calls are back to back.
C29_WaitBeforeEveryProbe ==
    /\ []WaitedBeforeProbe
    /\ [][calls'.probe # calls.probe =>
             /\ waited > 0 /\ waited' = 0
             /\ calls.probe > 0 =>
                   waited \in {SENTINEL_WAIT, PENDING_WAIT, POST_PUSH_WAIT}]_vars

\* a publish has succeeded and the loop has slept POST_PUSH_WAIT
C29_Witness ==
    /\ pc = "probe" /\ last = "publish" /\ waited = POST_PUSH_WAIT
    /\ commit_result = "committed_and_pushed" /\ calls.probe = 3
\* ---------------------------------------------------------------------
(* monitor_ci and check_ci_status of src/src/hooks/ci-auto-fixer.py *)

\* a check as gh pr checks --json name,status,conclusion prints it; "missing"
\* stands for a conclusion the object does not have
MonChecks ==
    [name : {"lint"}, status : {"completed", "in_progress"},
     conclusion : {"success", "skipped", "failure", "missing"}]

\* results of the gh call: its exit code, and whether stdout is text that
\* is no JSON, a list of checks, or JSON of another structure
MonQueryResults ==
    [returncode : {0, 1}, shape : {"text", "other"}, checks : {<<>>}]
    \cup [returncode : {0, 1}, shape : {"checks"}, checks : SeqsUpTo(MonChecks, MaxChecks)]

\* lines 45-88.  Any exception (json.loads, .get on something that is no
\* object) is caught by line 86 and reported as not completed.
check_ci_status(q) ==
    IF q.returncode # 0 THEN NotCompleted
    ELSE IF q.shape # "checks" THEN NotCompleted
    ELSE IF q.checks = <<>> THEN NotCompleted
    ELSE IF \E i \in DOMAIN q.checks : q.checks[i].status # "completed" THEN NotCompleted
    ELSE LET failed_checks ==
                 SelectSeq(q.checks, LAMBDA c : c.conclusion \notin {"success", "skipped"})
         IN [completed |-> TRUE, success |-> Len(failed_checks) = 0,
             failed_checks |-> failed_checks]

\* a variant of the loop bound of line 326 that allows one poll more
PollBudgetLeftOffByOne(poll) == poll <= MAX_POLLS

\* line 326: `for poll in range(max_polls):`
PollBudgetLeft(poll) == poll < MAX_POLLS

MonInit ==
    /\ pc = "monitor"
    /\ LoopIdle
    /\ io = NoIo
    /\ \E m \in -1 .. MaxRetriesBound :
          mon = [MonIdle EXCEPT !.pc = "loop", !.max_retries = m]

\* lines 326-329: the next poll calls check_ci_status
MonPoll ==
    /\ mon.pc = "loop"
    /\ PollBudgetLeft(mon.poll)
    /\ \E q \in MonQueryResults :
          mon' = [mon EXCEPT !.status = check_ci_status(q), !.polls = @ + 1,
                             !.pc = "check"]
    /\ UNCHANGED <<loopVars, io>>

\* lines 363-364: the polls are used up
MonTimeout ==
    /\ mon.pc = "loop"
    /\ ~PollBudgetLeft(mon.poll)
    /\ mon' = [mon EXCEPT !.ret = Append(@, FALSE), !.pc = "done"]
    /\ UNCHANGED <<loopVars, io>>

\* lines 331-334: CI still running; sleep poll_interval and continue
MonStillRunning ==
    /\ mon.pc = "check"
    /\ ~mon.status.completed
    /\ mon' = [mon EXCEPT !.poll = @ + 1, !.pc = "loop"]
    /\ UNCHANGED <<loopVars, io>>

\* lines 337-339: CI passed
MonPassed ==
    /\ mon.pc = "check"
    /\ mon.status.completed /\ mon.status.success
    /\ mon' = [mon EXCEPT !.ret = Append(@, TRUE), !.pc = "done"]
    /\ UNCHANGED <<loopVars, io>>

\* lines 344-349: retry limit reached
MonMaxRetries ==
    /\ mon.pc = "check"
    /\ mon.status.completed /\ ~mon.status.success
    /\ mon.attempt >= mon.max_retries
    /\ mon' = [mon EXCEPT !.ret = Append(@, FALSE), !.pc = "done"]
    /\ UNCHANGED <<loopVars, io>>

\* lines 352-361: attempt += 1; apply_auto_fix; stop when it applied
\* nothing, else sleep 60 and go on with the next poll
MonFix ==
    /\ mon.pc = "check"
    /\ mon.status.completed /\ ~mon.status.success
    /\ mon.attempt < mon.max_retries
    /\ \E applied \in BOOLEAN :
          mon' = IF applied
                 THEN [mon EXCEPT !.attempt = @ + 1, !.fixes = @ + 1,
                                  !.fixes_applied = TRUE, !.poll = @ + 1, !.pc = "loop"]
                 ELSE [mon EXCEPT !.attempt = @ + 1, !.fixes = @ + 1,
                                  !.fixes_applied = FALSE,
                                  !.ret = Append(@, FALSE), !.pc = "done"]
    /\ UNCHANGED <<loopVars, io>>

MonNext ==
    \/ MonPoll
    \/ MonTimeout
    \/ MonStillRunning
    \/ MonPassed
    \/ MonMaxRetries
    \/ MonFix

\* the process keeps running: check_ci_status, apply_auto_fix and the
\* sleeps return
MonSpec == MonInit /\ [][MonNext]_vars /\ WF_vars(MonNext)

\* what monitor_ci has called and returned so far
MonWithinBudget ==
    /\ mon.polls <= MAX_POLLS
    /\ mon.fixes <= (IF mon.max_retries < 0 THEN 0 ELSE mon.max_retries)
    /\ Len(mon.ret) <= 1
    /\ mon.pc = "done" <=> Len(mon.ret) = 1
    /\ mon.ret = <<TRUE>> =>
          /\ mon.status.completed /\ mon.status.success
          /\ mon.status.failed_checks = <<>>
    /\ mon.ret = <<FALSE>> =>
          \/ mon.poll = MAX_POLLS /\ mon.polls = MAX_POLLS
          \/ /\ mon.status.completed /\ ~mon.status.success
             /\ mon.attempt >= mon.max_retries
          \/ mon.fixes > 0 /\ ~mon.fixes_applied

\* C30: monitor_ci always terminates; it calls check_ci_status at most
\* MAX_POLLS times and apply_auto_fix at most max_retries times; it returns
\* True only after a status that is completed with no failed check, and
\* False when the polls are used up, when the retry limit is reached, and
\* in the very step in which apply_auto_fix reports no fix.
C30_MonitorTerminates ==
    /\ <>(mon.pc = "done")
    /\ []MonWithinBudget
    /\ [][(mon'.fixes # mon.fixes /\ ~mon'.fixes_applied) =>
             (mon'.ret = <<FALSE>> /\ mon'.pc = "done")]_vars

\* CI never completes but for two failures that were fixed: the polls run out
C30_Witness ==
    /\ mon.pc = "done" /\ mon.ret = <<FALSE>>
    /\ mon.polls = MAX_POLLS /\ mon.poll = MAX_POLLS /\ mon.fixes = 2
====
